---- MODULE Spec2Model ----
(***************************************************************************)
(* Fowler-Noll-Vo hashes (yafnv, src/src/lib.rs): the Fnv trait with its   *)
(* fnv1 / fnv1a methods for u32, u64 and u128, the free functions fnv1 and *)
(* fnv1a, and the streaming Fnv1aHasher with its builder.                  *)
(*                                                                         *)
(* TLC's integers are 32 bits wide, so an unsigned integer of width w is   *)
(* the sequence of its w/8 limbs of 8 bits, least significant limb first.  *)
(* Multiplication and xor are computed on the limbs, at the width of the   *)
(* type, so that the wraparound of the code is the wraparound of the model.*)
(***************************************************************************)
EXTENDS Integers, Sequences, FiniteSets, TLC

VARIABLES
  hashers,  \* the Fnv1aHasher instances: NoHasher or <<accumulator>>
  hist,     \* history of each instance: its seed, the bytes written, whether written
  last,     \* the last call on an instance and what it returned
  call      \* a call of the hash functions: type, self, data, function, result

vars == <<hashers, hist, last, call>>

----------------------------------------------------------------------------
(* Bounds of the model *)

\* longest byte stream handed to a hash function, test vectors aside
MaxLen == 2
\* most bytes written to the hasher of Spec, over all its writes
MaxWritten == 4
\* longest chunk of one write in Spec
MaxChunk == 2
\* most bytes written to each of the two hashers of SpecPair
MaxPairWritten == 2
\* longest chunk of one write in SpecPair
MaxPairChunk == 1

\* the byte values the bounded inputs are drawn from
ByteSet == {0, 97, 255}
\* the byte values written to the hashers
StreamBytes == {97, 255}

RECURSIVE SeqsUpTo(_, _)
SeqsUpTo(S, n) ==
  IF n = 0 THEN {<<>>}
  ELSE LET shorter == SeqsUpTo(S, n - 1)
       IN  shorter \cup {Append(s, b) : s \in {t \in shorter : Len(t) = n - 1}, b \in S}

----------------------------------------------------------------------------
(* Unsigned integers as little-endian limbs *)

\* the limbs of a literal written most significant byte first, as in the source
Reverse(s) == [i \in 1..Len(s) |-> s[Len(s) + 1 - i]] \o <<>>

Types == {"u32", "u64", "u128"}

\* size of Self in bytes
Limbs(T) == CASE T = "u32" -> 4 [] T = "u64" -> 8 [] T = "u128" -> 16

IsUint(T, v) ==
  /\ DOMAIN v = 1..Limbs(T)
  /\ \A i \in 1..Limbs(T) : v[i] \in 0..255

Zero(T) == [i \in 1..Limbs(T) |-> 0] \o <<>>
MaxValue(T) == [i \in 1..Limbs(T) |-> 255] \o <<>>

\* Fnv::PRIME of impl Fnv for u32, u64, u128
PRIME(T) ==
  CASE T = "u32"  -> Reverse(<<\H01, \H00, \H01, \H93>>)
    [] T = "u64"  -> Reverse(<<\H00, \H00, \H01, \H00, \H00, \H00, \H01, \HB3>>)
    [] T = "u128" -> Reverse(<<\H00, \H00, \H00, \H00, \H01, \H00, \H00, \H00,
                               \H00, \H00, \H00, \H00, \H00, \H00, \H01, \H3B>>)

\* a wrong offset basis: the 64-bit basis with its last digit mistyped
OFFSET_BASIS_typo(T) ==
  CASE T = "u32"  -> Reverse(<<\H81, \H1c, \H9d, \Hc5>>)
    [] T = "u64"  -> Reverse(<<\Hcb, \Hf2, \H9c, \He4, \H84, \H22, \H23, \H26>>)
    [] T = "u128" -> Reverse(<<\H6c, \H62, \H27, \H2e, \H07, \Hbb, \H01, \H42,
                               \H62, \Hb8, \H21, \H75, \H62, \H95, \Hc5, \H8d>>)

\* Fnv::OFFSET_BASIS of impl Fnv for u32, u64, u128
OFFSET_BASIS(T) ==
  CASE T = "u32"  -> Reverse(<<\H81, \H1c, \H9d, \Hc5>>)
    [] T = "u64"  -> Reverse(<<\Hcb, \Hf2, \H9c, \He4, \H84, \H22, \H23, \H25>>)
    [] T = "u128" -> Reverse(<<\H6c, \H62, \H27, \H2e, \H07, \Hbb, \H01, \H42,
                               \H62, \Hb8, \H21, \H75, \H62, \H95, \Hc5, \H8d>>)

\* v evaluated once and handed to F: TLC evaluates an operator's argument
\* again at every use, a bound variable once
Let1(v, F(_)) == CHOOSE r \in {F(x) : x \in {v}} : TRUE

\* xor of two 8-bit values, bit by bit
Xor8(a, b) ==
  LET bit(x, i) == (x \div (2 ^ i)) % 2
      x(i) == ((bit(a, i) + bit(b, i)) % 2) * (2 ^ i)
  IN  x(0) + x(1) + x(2) + x(3) + x(4) + x(5) + x(6) + x(7)

\* BitXor::bitxor (the ^ of Self)
BitXor(a, b) ==
  Let1(<<a, b>>, LAMBDA v : [i \in 1..Len(v[1]) |-> Xor8(v[1][i], v[2][i])] \o <<>>)

\* AsPrimitive::as_ of u8: the byte zero-extended to Self
as_(byte, T) == [i \in 1..Limbs(T) |-> IF i = 1 THEN byte ELSE 0]

\* sum of the limb products a[i] * b[k+1-i] of column k, from row i on
RECURSIVE ColSum(_, _, _, _)
ColSum(a, b, k, i) ==
  IF i > k THEN 0 ELSE a[i] * b[k + 1 - i] + ColSum(a, b, k, i + 1)

\* the limbs k.. of the product of a and b, Len(a) limbs in all: the carry
\* out of the last limb is dropped
RECURSIVE MulLimbs(_, _, _, _)
MulLimbs(a, b, k, carry) ==
  IF k > Len(a) THEN <<>>
  ELSE Let1(ColSum(a, b, k, 1) + carry,
            LAMBDA t : <<t % 256>> \o MulLimbs(a, b, k + 1, t \div 256))

\* the product of a and b in twice their width, which cannot overflow
WideMul(a, b) ==
  LET wide(v) == [i \in 1..(2 * Len(v)) |-> IF i <= Len(v) THEN v[i] ELSE 0] \o <<>>
  IN  Let1(<<wide(a), wide(b)>>, LAMBDA v : MulLimbs(v[1], v[2], 1, 0))

\* whether the product of a and b does not fit their width
MulOverflows(a, b) ==
  Let1(WideMul(a, b), LAMBDA p : \E i \in (Len(p) \div 2 + 1)..Len(p) : p[i] # 0)

\* a multiplication that saturates where the product overflows
saturating_mul(a, b) ==
  Let1(<<a, b>>, LAMBDA v :
    IF MulOverflows(v[1], v[2]) THEN [i \in 1..Len(v[1]) |-> 255] \o <<>>
    ELSE MulLimbs(v[1], v[2], 1, 0))

\* WrappingMul::wrapping_mul: the product modulo 2^width
wrapping_mul(a, b) == Let1(<<a, b>>, LAMBDA v : MulLimbs(v[1], v[2], 1, 0))

----------------------------------------------------------------------------
(* trait Fnv *)

\* the closure of Fnv::fnv1: multiply, then xor
fnv1_closure(T, hash, byte) == BitXor(wrapping_mul(hash, PRIME(T)), as_(byte, T))

\* Fnv::fnv1: data.into_iter().fold(self, closure)
RECURSIVE Fnv_fnv1(_, _, _)
Fnv_fnv1(T, self, data) ==
  IF data = <<>> THEN self
  ELSE Fnv_fnv1(T, fnv1_closure(T, self, Head(data)), Tail(data))

\* the closure of fnv1a with the two operations in the order of fnv1
fnv1a_closure_swapped(T, hash, byte) ==
  BitXor(wrapping_mul(hash, PRIME(T)), as_(byte, T))

\* the closure of Fnv::fnv1a: xor, then multiply
fnv1a_closure(T, hash, byte) == wrapping_mul(BitXor(hash, as_(byte, T)), PRIME(T))

\* Fnv::fnv1a: data.into_iter().fold(self, closure)
RECURSIVE Fnv_fnv1a(_, _, _)
Fnv_fnv1a(T, self, data) ==
  IF data = <<>> THEN self
  ELSE Fnv_fnv1a(T, fnv1a_closure(T, self, Head(data)), Tail(data))

\* pub fn fnv1
fnv1(T, data) == Fnv_fnv1(T, OFFSET_BASIS(T), data)

\* a free fnv1a that calls the fnv1 method
fnv1a_calls_fnv1(T, data) == Fnv_fnv1(T, OFFSET_BASIS(T), data)

\* pub fn fnv1a
fnv1a(T, data) == Fnv_fnv1a(T, OFFSET_BASIS(T), data)

----------------------------------------------------------------------------
(* struct Fnv1aHasher(u64): the tuple of its one field *)

\* a with_key that drops its argument
with_key_ignored(key) == <<OFFSET_BASIS("u64")>>

\* Fnv1aHasher::with_key
with_key(key) == <<key>>

\* Default::default
default == with_key(OFFSET_BASIS("u64"))

\* BuildHasherDefault<Fnv1aHasher>::build_hasher
build_hasher == default

\* Hasher::finish
finish(self) == self[1]

\* a write that folds from the offset basis instead of the accumulator
write_restarts(self, bytes) == <<Fnv_fnv1a("u64", OFFSET_BASIS("u64"), bytes)>>

\* Hasher::write
write(self, bytes) == <<Fnv_fnv1a("u64", self[1], bytes)>>

----------------------------------------------------------------------------
(* The hasher instances *)

Ids == {"h1", "h2"}

\* a slot that holds no hasher yet
NoHasher == <<>>
\* no value: the unit a write returns, or no call made yet
Unit == <<>>

\* the keys handed to with_key
Keys == {Zero("u64"), MaxValue("u64")}

\* the chunks handed to write
Chunks == SeqsUpTo(StreamBytes, MaxChunk)
PairChunks == SeqsUpTo(StreamBytes, MaxPairChunk)

NoHist == [seed |-> <<>>, written |-> <<>>, wrote |-> FALSE]
NoCall == [ty |-> "u64", self |-> <<>>, data |-> <<>>, fn |-> "none", ret |-> Unit]

Init ==
  /\ hashers = [i \in Ids |-> NoHasher]
  /\ hist = [i \in Ids |-> NoHist]
  /\ last = [op |-> "none", id |-> "none", ret |-> Unit]
  /\ call = NoCall

\* let h = Fnv1aHasher::default()
Default(i) ==
  /\ hashers' = [hashers EXCEPT ![i] = default]
  /\ hist' = [hist EXCEPT ![i] = [seed |-> finish(default), written |-> <<>>, wrote |-> FALSE]]
  /\ last' = [op |-> "default", id |-> i, ret |-> Unit]
  /\ UNCHANGED call

\* let h = Fnv1aBuildHasher::default().build_hasher()
BuildHasher(i) ==
  /\ hashers' = [hashers EXCEPT ![i] = build_hasher]
  /\ hist' = [hist EXCEPT ![i] = [seed |-> finish(build_hasher), written |-> <<>>, wrote |-> FALSE]]
  /\ last' = [op |-> "build_hasher", id |-> i, ret |-> Unit]
  /\ UNCHANGED call

\* let h = Fnv1aHasher::with_key(key)
WithKey(i, key) ==
  /\ hashers' = [hashers EXCEPT ![i] = with_key(key)]
  /\ hist' = [hist EXCEPT ![i] = [seed |-> key, written |-> <<>>, wrote |-> FALSE]]
  /\ last' = [op |-> "with_key", id |-> i, ret |-> Unit]
  /\ UNCHANGED call

\* a write that a finish has closed the instance for
WriteClosed(i, bytes) ==
  /\ hashers[i] # NoHasher
  /\ ~(last.op = "finish" /\ last.id = i)
  /\ hashers' = [hashers EXCEPT ![i] = write(hashers[i], bytes)]
  /\ hist' = [hist EXCEPT ![i].written = @ \o bytes, ![i].wrote = TRUE]
  /\ last' = [op |-> "write", id |-> i, ret |-> Unit]
  /\ UNCHANGED call

\* a write through an accumulator that all the instances share
WriteShared(i, bytes) ==
  /\ hashers[i] # NoHasher
  /\ hashers' = [j \in Ids |-> IF hashers[j] = NoHasher THEN NoHasher
                               ELSE write(hashers[i], bytes)]
  /\ hist' = [hist EXCEPT ![i].written = @ \o bytes, ![i].wrote = TRUE]
  /\ last' = [op |-> "write", id |-> i, ret |-> Unit]
  /\ UNCHANGED call

\* h.write(bytes)
Write(i, bytes) ==
  /\ hashers[i] # NoHasher
  /\ hashers' = [hashers EXCEPT ![i] = write(hashers[i], bytes)]
  /\ hist' = [hist EXCEPT ![i].written = @ \o bytes, ![i].wrote = TRUE]
  /\ last' = [op |-> "write", id |-> i, ret |-> Unit]
  /\ UNCHANGED call

\* a finish that hands the accumulator out and starts over
FinishResets(i) ==
  /\ hashers[i] # NoHasher
  /\ hashers' = [hashers EXCEPT ![i] = default]
  /\ last' = [op |-> "finish", id |-> i, ret |-> finish(hashers[i])]
  /\ UNCHANGED <<hist, call>>

\* h.finish()
Finish(i) ==
  /\ hashers[i] # NoHasher
  /\ last' = [op |-> "finish", id |-> i, ret |-> finish(hashers[i])]
  /\ UNCHANGED <<hashers, hist, call>>

\* the calls on the instances I, the bytes written to one of them bounded
Calls(I, chunks, maxWritten) ==
  \/ \E i \in I : Default(i)
  \/ \E i \in I : BuildHasher(i)
  \/ \E i \in I, key \in Keys : WithKey(i, key)
  \/ \E i \in I, bytes \in chunks :
       /\ Len(hist[i].written) + Len(bytes) <= maxWritten
       /\ Write(i, bytes)
  \/ \E i \in I : Finish(i)

\* one hasher
Next == Calls({"h1"}, Chunks, MaxWritten)

Spec == Init /\ [][Next]_vars

\* two hashers, their calls interleaved
NextPair == Calls(Ids, PairChunks, MaxPairWritten)

SpecPair == Init /\ [][NextPair]_vars

----------------------------------------------------------------------------
(* Calls of the hash functions on bounded inputs *)

\* the test vectors of the documentation
Vec_a == <<97>>
Vec_foobar == <<102, 111, 111, 98, 97, 114>>

Inputs == SeqsUpTo(ByteSet, MaxLen) \cup {Vec_a, Vec_foobar}

\* the states a fold is started from
Selfs(T) == {OFFSET_BASIS(T), Zero(T), MaxValue(T)}

InitFn ==
  /\ hashers = [i \in Ids |-> NoHasher]
  /\ hist = [i \in Ids |-> NoHist]
  /\ last = [op |-> "none", id |-> "none", ret |-> Unit]
  /\ call \in UNION {{[ty |-> T, self |-> s, data |-> d, fn |-> "none", ret |-> Unit] :
                        s \in Selfs(T), d \in Inputs} : T \in Types}

Returns(fn, value) ==
  /\ call.fn = "none"
  /\ call' = [call EXCEPT !.fn = fn, !.ret = value]
  /\ UNCHANGED <<hashers, hist, last>>

\* fnv1::<T, _>(data)
CallFnv1 == Returns("fnv1", fnv1(call.ty, call.data))

\* fnv1a::<T, _>(data)
CallFnv1a == Returns("fnv1a", fnv1a(call.ty, call.data))

\* self.fnv1(data)
CallMethodFnv1 == Returns("Fnv::fnv1", Fnv_fnv1(call.ty, call.self, call.data))

\* self.fnv1a(data)
CallMethodFnv1a == Returns("Fnv::fnv1a", Fnv_fnv1a(call.ty, call.self, call.data))

\* let mut h = Fnv1aHasher::default(); h.write(data); h.finish()
HasherWriteFinish ==
  /\ call.ty = "u64"
  /\ Returns("write_finish", finish(write(default, call.data)))

\* Fnv1aHasher::default().finish()
HasherFinish ==
  /\ call.ty = "u64"
  /\ Returns("default_finish", finish(default))

NextFn ==
  \/ CallFnv1
  \/ CallFnv1a
  \/ CallMethodFnv1
  \/ CallMethodFnv1a
  \/ HasherWriteFinish
  \/ HasherFinish

SpecFn == InitFn /\ [][NextFn]_vars

----------------------------------------------------------------------------
(* Properties of the hasher instances, checked under Spec *)

\* the 64-bit offset basis 0xcbf29ce484222325 as the FNV parameters publish it
Basis64 == Reverse(<<\Hcb, \Hf2, \H9c, \He4, \H84, \H22, \H23, \H25>>)

Built == {i \in Ids : hashers[i] # NoHasher}

\* the two-way splits of the streams that fit one chunk
Splits == {<<a, b>> \in Chunks \X Chunks : Len(a) + Len(b) <= MaxChunk}

\* C1: chunk-split invariance of write. From every accumulator an instance
\* reaches (default or keyed, fresh or written to) and for every split
\* S = A ++ B, empty halves included, write(A) then write(B) leaves the
\* accumulator, and so the value of finish, that one write(A ++ B) leaves.
C1_ChunkSplitInvariance ==
  \A i \in Built : \A ab \in Splits :
    \A afterA \in {write(hashers[i], ab[1])} :
      \A twice \in {write(afterA, ab[2])}, once \in {write(hashers[i], ab[1] \o ab[2])} :
        twice = once /\ finish(twice) = finish(once)

\* an instance made by with_key, written to, whose splits are compared
C1_Witness ==
  \E i \in Built :
    /\ hist[i].seed \in Keys
    /\ hist[i].wrote /\ hist[i].written # <<>>
    /\ \E ab \in Splits : ab[1] # <<>> /\ ab[2] # <<>>
                          /\ write(hashers[i], ab[1]) # write(hashers[i], ab[1] \o ab[2])

\* C2: one-shot/streaming equivalence. A default hasher fed any chunks in
\* order returns from finish the one-shot fnv1a::<u64> of their concatenation.
C2_OneShotStreaming ==
  \A i \in Built :
    hist[i].seed = Basis64 => finish(hashers[i]) = fnv1a("u64", hist[i].written)

\* a default hasher that took more bytes than one chunk holds: several writes
C2_Witness ==
  \E i \in Built :
    /\ hist[i].seed = Basis64
    /\ Len(hist[i].written) > MaxChunk
    /\ finish(hashers[i]) # Basis64

\* C5: finish is a pure read. A finish changes no accumulator (so a second
\* finish returns the same value), and it returns the FNV-1a fold, from the
\* seed, of exactly the bytes written to the instance before it.
C5_FinishPureRead ==
  [][last'.op = "finish" =>
       /\ hashers' = hashers
       /\ hist' = hist
       /\ last'.ret = finish(hashers[last'.id])
       /\ last'.ret = Fnv_fnv1a("u64", hist[last'.id].seed, hist[last'.id].written)
       /\ (last.op = "finish" /\ last.id = last'.id => last'.ret = last.ret)]_vars

\* a finish after writes, which returned a value that is not the seed
C5_Witness ==
  /\ last.op = "finish"
  /\ hist[last.id].wrote
  /\ Len(hist[last.id].written) > MaxChunk
  /\ last.ret # hist[last.id].seed
  /\ last.ret = finish(hashers[last.id])

\* C6: the instances are independent. A hasher from default or the builder
\* starts at the 64-bit offset basis whatever was built or written before; a
\* call on one instance never changes the other; each accumulator is the fold
\* of its own seed and its own bytes.
C6_Independent ==
  /\ [][\A j \in Ids : j # last'.id => hashers'[j] = hashers[j]]_vars
  /\ [](last.op \in {"default", "build_hasher"} => hashers[last.id] = <<Basis64>>)
  /\ [](\A i \in Built :
          finish(hashers[i]) = Fnv_fnv1a("u64", hist[i].seed, hist[i].written))

\* a fresh default hasher next to an instance that was already written to
C6_Witness ==
  /\ last.op \in {"default", "build_hasher"}
  /\ \E j \in Built :
       /\ j # last.id
       /\ hist[j].wrote /\ hist[j].written # <<>>
       /\ hist[j].seed = Basis64
       /\ hashers[j] # hashers[last.id]

\* C9: seeded write semantics. with_key(k) holds exactly k, and after the
\* writes c1..cn finish is k.fnv1a(c1 ++ ... ++ cn), the bytes in order.
C9_SeededWrite ==
  /\ last.op = "with_key" =>
       /\ hist[last.id].seed \in Keys
       /\ finish(hashers[last.id]) = hist[last.id].seed
  /\ \A i \in Built :
       /\ ~hist[i].wrote => finish(hashers[i]) = hist[i].seed
       /\ finish(hashers[i]) = Fnv_fnv1a("u64", hist[i].seed, hist[i].written)

\* a keyed instance after several writes of different bytes
C9_Witness ==
  \E i \in Built :
    /\ hist[i].seed = MaxValue("u64")
    /\ Len(hist[i].written) > MaxChunk
    /\ \E k \in 1..(Len(hist[i].written) - 1) : hist[i].written[k] # hist[i].written[k + 1]

PhaseOf(h) == IF h.wrote THEN "Accumulating" ELSE "Initialized"
Phase(i) == PhaseOf(hist[i])

\* C10: no terminal state. In every state a write of any chunk is enabled on
\* the instance, whatever writes and finishes came before; a write
\* leaves the instance Accumulating, a finish leaves its state as it was,
\* a new instance is Initialized, and every value returned is a u64.
C10_NoTerminalState ==
  /\ [](\A i \in Built : \A c \in Chunks :
          ENABLED Write(i, c))
  /\ [](\A i \in Built : IsUint("u64", finish(hashers[i])))
  /\ [][/\ last'.op = "write" => PhaseOf(hist'[last'.id]) = "Accumulating"
        /\ last'.op = "finish" => \A i \in Ids : PhaseOf(hist'[i]) = Phase(i)
        /\ last'.op \in {"default", "build_hasher", "with_key"} =>
             PhaseOf(hist'[last'.id]) = "Initialized"]_vars

\* an instance that took all the bytes the model writes and can be written to
C10_Witness ==
  /\ last.op = "finish"
  /\ Phase(last.id) = "Accumulating"
  /\ Len(hist[last.id].written) = MaxWritten
  /\ \A c \in Chunks : ENABLED Write(last.id, c)

----------------------------------------------------------------------------
(* Properties of the hash functions, checked under SpecFn *)

\* a value as the documentation writes it, most significant byte first
Hex(bytes) == Reverse(bytes)

\* C3: FNV-1a from the offset basis reproduces the published vectors: of "",
\* "a" and "foobar" the 32-bit hashes 0x811c9dc5, 0xe40c292c, 0xbf9cf968 and
\* the 64-bit hashes 0xcbf29ce484222325, 0xaf63dc4c8601ec8c,
\* 0x85944171f73967e8; a default hasher after write("foobar") finishes with
\* 0x85944171f73967e8.
C3_ReferenceVectors ==
  LET is(fns, ty, data, value) ==
        (call.fn \in fns /\ call.ty = ty /\ call.data = data) => call.ret = Hex(value)
      basis(self, ty) == self = OFFSET_BASIS(ty)
      fns == IF basis(call.self, call.ty) THEN {"fnv1a", "Fnv::fnv1a"} ELSE {"fnv1a"}
  IN  /\ is(fns, "u32", <<>>, <<\H81, \H1c, \H9d, \Hc5>>)
      /\ is(fns, "u32", Vec_a, <<\He4, \H0c, \H29, \H2c>>)
      /\ is(fns, "u32", Vec_foobar, <<\Hbf, \H9c, \Hf9, \H68>>)
      /\ is(fns, "u64", <<>>, <<\Hcb, \Hf2, \H9c, \He4, \H84, \H22, \H23, \H25>>)
      /\ is(fns, "u64", Vec_a, <<\Haf, \H63, \Hdc, \H4c, \H86, \H01, \Hec, \H8c>>)
      /\ is(fns, "u64", Vec_foobar, <<\H85, \H94, \H41, \H71, \Hf7, \H39, \H67, \He8>>)
      /\ is({"write_finish"}, "u64", Vec_foobar,
            <<\H85, \H94, \H41, \H71, \Hf7, \H39, \H67, \He8>>)

\* "foobar" hashed by the 32-bit function
C3_Witness ==
  /\ call.fn = "fnv1a" /\ call.ty = "u32" /\ call.data = Vec_foobar
  /\ call.ret = Hex(<<\Hbf, \H9c, \Hf9, \H68>>)

\* C4: empty input returns the offset basis. For each width, fnv1 and fnv1a
\* of the empty stream are 0x811c9dc5, 0xcbf29ce484222325 and
\* 0x6c62272e07bb014262b821756295c58d, and finish on a default hasher with no
\* write is the 64-bit one.
C4_EmptyInput ==
  LET basis(ty) ==
        CASE ty = "u32"  -> Hex(<<\H81, \H1c, \H9d, \Hc5>>)
          [] ty = "u64"  -> Hex(<<\Hcb, \Hf2, \H9c, \He4, \H84, \H22, \H23, \H25>>)
          [] ty = "u128" -> Hex(<<\H6c, \H62, \H27, \H2e, \H07, \Hbb, \H01, \H42,
                                  \H62, \Hb8, \H21, \H75, \H62, \H95, \Hc5, \H8d>>)
  IN  /\ (call.fn \in {"fnv1", "fnv1a"} /\ call.data = <<>>) => call.ret = basis(call.ty)
      /\ call.fn = "default_finish" => call.ret = basis("u64")

\* the 128-bit fnv1 of the empty stream, from a call whose self is not the basis
C4_Witness ==
  /\ call.fn = "fnv1" /\ call.ty = "u128" /\ call.data = <<>>
  /\ call.self # OFFSET_BASIS("u128")
  /\ Len(call.ret) = 16

(* Arithmetic modulo 2^width built from addition with carry alone, against  *)
(* which the fold of the code is compared.                                  *)

RECURSIVE AddLimbs(_, _, _, _)
AddLimbs(a, b, k, carry) ==
  IF k > Len(a) THEN <<>>
  ELSE Let1(a[k] + b[k] + carry,
            LAMBDA t : <<t % 256>> \o AddLimbs(a, b, k + 1, t \div 256))

\* a + b modulo 2^width: the carry out of the last limb is lost
AddMod(a, b) == Let1(<<a, b>>, LAMBDA v : AddLimbs(v[1], v[2], 1, 0))

\* a * 256^j modulo 2^width
ShiftLimbs(a, j) ==
  Let1(a, LAMBDA v : [i \in 1..Len(v) |-> IF i > j THEN v[i - j] ELSE 0] \o <<>>)

\* a * c modulo 2^width for a number c, by doubling
RECURSIVE ScalarMul(_, _)
ScalarMul(a, c) ==
  IF c = 0 THEN [i \in 1..Len(a) |-> 0] \o <<>>
  ELSE Let1(ScalarMul(a, c \div 2),
            LAMBDA h : IF c % 2 = 1 THEN AddMod(AddMod(h, h), a) ELSE AddMod(h, h))

\* the sum over the limbs j.. of p of a * p[j] * 256^(j-1), modulo 2^width
RECURSIVE MulRows(_, _, _)
MulRows(a, p, j) ==
  IF j > Len(p) THEN [i \in 1..Len(a) |-> 0] \o <<>>
  ELSE AddMod(ShiftLimbs(ScalarMul(a, p[j]), j - 1), MulRows(a, p, j + 1))

\* (a * p) mod 2^width
MulMod(a, p) == Let1(<<a, p>>, LAMBDA v : MulRows(v[1], v[2], 1))

\* x xor y of two bytes as x + y - 2 * (x and y)
XorByte(x, y) ==
  LET both(i) == IF (x \div (2 ^ i)) % 2 = 1 /\ (y \div (2 ^ i)) % 2 = 1 THEN 2 ^ i ELSE 0
  IN  x + y - 2 * (both(0) + both(1) + both(2) + both(3) + both(4) + both(5)
                   + both(6) + both(7))

\* s xor the zero-extended byte b: only the lowest limb changes
XorWiden(s, b) == Let1(s, LAMBDA v : [v EXCEPT ![1] = XorByte(v[1], b)])

\* ((s * PRIME) mod 2^w) xor b
StepFnv1(T, s, b) == XorWiden(MulMod(s, PRIME(T)), b)

\* ((s xor b) * PRIME) mod 2^w
StepFnv1a(T, s, b) == MulMod(XorWiden(s, b), PRIME(T))

\* the left-to-right iteration of a step over the bytes
RECURSIVE Iterate(_, _, _, _)
Iterate(fn, T, s, data) ==
  IF data = <<>> THEN s
  ELSE Let1(IF fn = "fnv1" THEN StepFnv1(T, s, Head(data)) ELSE StepFnv1a(T, s, Head(data)),
            LAMBDA next : Iterate(fn, T, next, Tail(data)))

\* C8: the fold wraps modulo 2^width. For each width, from the state a call
\* starts at and the state it returns, and for every byte b, the FNV-1 step is
\* ((s * PRIME) mod 2^w) xor b and the FNV-1a step ((s xor b) * PRIME) mod 2^w;
\* fnv1 and fnv1a return the left-to-right iteration of that step over the
\* input, a value of the width, not a saturated one.
C8_WrappingFold ==
  LET states == {call.self} \cup (IF call.fn = "none" THEN {} ELSE {call.ret})
  IN  /\ \A s \in states : \A b \in ByteSet :
           /\ IsUint(call.ty, s)
           /\ fnv1_closure(call.ty, s, b) = StepFnv1(call.ty, s, b)
           /\ fnv1a_closure(call.ty, s, b) = StepFnv1a(call.ty, s, b)
      /\ call.fn = "Fnv::fnv1" => call.ret = Iterate("fnv1", call.ty, call.self, call.data)
      /\ call.fn = "Fnv::fnv1a" => call.ret = Iterate("fnv1a", call.ty, call.self, call.data)
      /\ call.fn = "fnv1" =>
           call.ret = Iterate("fnv1", call.ty, OFFSET_BASIS(call.ty), call.data)
      /\ call.fn = "fnv1a" =>
           call.ret = Iterate("fnv1a", call.ty, OFFSET_BASIS(call.ty), call.data)

\* a 128-bit fnv1a over several bytes whose first product overflows the width
C8_Witness ==
  /\ call.fn = "Fnv::fnv1a" /\ call.ty = "u128"
  /\ call.self = MaxValue("u128")
  /\ Len(call.data) >= 2
  /\ MulOverflows(BitXor(call.self, as_(Head(call.data), "u128")), PRIME("u128"))
  /\ call.ret # MaxValue("u128")

====
